---- MODULE Spec2Model ----
(***************************************************************************)
(* State-machine model of mfem::SlepcEigenSolver (linalg/slepc.cpp): the   *)
(* operator adapter of SetOperator/SetOperators, the configuration         *)
(* setters, the Customize latch, Solve, the lazily allocated eigenvector   *)
(* views of GetEigenvector and the destructor.  The SLEPc engine (EPS) is  *)
(* modelled by the record eps and the operators EPS...; a failing engine   *)
(* call goes through PCHKERRQ to MFEM_ABORT (status = "aborted").          *)
(***************************************************************************)
EXTENDS Integers, Sequences, FiniteSets, TLC

\* ---------------------------------------------------------------- bounds
MaxConv == 1        \* a solve converges 0..MaxConv eigenpairs
MaxWrappers == 2    \* the count of live synthesized wrappers saturates here
MaxSolves == 2      \* the count of Solve() calls per binding saturates here
MaxMerges == 2      \* the count of option merges saturates here
MaxViews == 2       \* no further solver is constructed with so many views left

\* ------------------------------------------------------------- constants
PETSC_DEFAULT == -2

\* A pointer is a sequence of length 0 (NULL) or 1 (the object pointed to).
NULL == <<>>
Ptr(x) == <<x>>
Deref(p) == p[1]

Min(a, b) == IF a < b THEN a ELSE b
Count(p) == IF p = NULL THEN 0 ELSE 1

\* ------------------------------------------------------------- operators
\* The dynamic types the adapter discriminates.
Kinds == {"PetscParMatrix", "HypreParMatrix", "Operator"}
OpOf(k, n) == [kind |-> k, n |-> n]
P1 == OpOf("PetscParMatrix", 1)
H1 == OpOf("HypreParMatrix", 1)
G2 == OpOf("Operator", 2)
P2 == OpOf("PetscParMatrix", 2)
Operators == {P1, H1, G2, P2}

\* dynamic_cast<const PetscParMatrix *>(&op)
CastPetsc(op) == IF op.kind = "PetscParMatrix" THEN Ptr(op) ELSE NULL
\* dynamic_cast<const HypreParMatrix *>(&op)
CastHypre(op) == IF op.kind = "HypreParMatrix" THEN Ptr(op) ELSE NULL
\* dynamic_cast<const Operator *>(&op): every argument is an Operator
CastOperator(op) == Ptr(op)

\* _wrap ? Operator::PETSC_MATSHELL : Operator::PETSC_MATAIJ
TypeId(wrap) == IF wrap THEN "PETSC_MATSHELL" ELSE "PETSC_MATAIJ"

\* A canonical matrix object: the caller's own PetscParMatrix (synth = FALSE)
\* or a wrapper made by new PetscParMatrix(...) around the caller's operator.
Borrowed(op) == [synth |-> FALSE, op |-> op, tid |-> "NATIVE"]
NewPetscParMatrix(op, tid) == [synth |-> TRUE, op |-> op, tid |-> tid]

\* Faulty variant: every operator is wrapped, canonical or not.
AdaptOperator_AlwaysWrap(op, wrap) ==
  [pA |-> Ptr(NewPetscParMatrix(op, TypeId(wrap))), delete_pA |-> TRUE]

\* The adapter of SetOperator / SetOperators: pA and its ownership flag.
AdaptOperator(op, wrap) ==
  LET pA == CastPetsc(op)
      hA == CastHypre(op)
      oA == CastOperator(op)
  IN IF pA # NULL THEN [pA |-> Ptr(Borrowed(op)), delete_pA |-> FALSE]
     ELSE IF hA # NULL
       THEN [pA |-> Ptr(NewPetscParMatrix(Deref(hA), TypeId(wrap))),
             delete_pA |-> TRUE]
     ELSE IF oA # NULL
       THEN [pA |-> Ptr(NewPetscParMatrix(Deref(oA), TypeId(wrap))),
             delete_pA |-> TRUE]
     ELSE [pA |-> NULL, delete_pA |-> FALSE]

\* if (delete_pA) {delete_pA;} : the statement evaluates the flag and
\* deletes nothing; the result is the number of wrappers released.
ReleaseIfOwned(delete_pA) == IF delete_pA THEN 0 ELSE 0

\* Faulty variant: the flag is not raised by a registration.
MarkOperatorSet_Forgotten(opset) == opset

\* operatorset = true;
MarkOperatorSet(opset) == TRUE

\* Faulty variant: the views survive a new registration.
DiscardViews_Never(opset, vr, vc) ==
  [VR |-> vr, VC |-> vc, freed |-> 0]

\* Faulty variant: VC is forgotten.
DiscardViews_OnlyVR(opset, vr, vc) ==
  IF opset THEN [VR |-> NULL, VC |-> vc, freed |-> Count(vr)]
  ELSE [VR |-> vr, VC |-> vc, freed |-> 0]

\* if (operatorset) { delete VR; delete VC; VR = VC = NULL; }
DiscardViews(opset, vr, vc) ==
  IF opset THEN [VR |-> NULL, VC |-> NULL, freed |-> Count(vr) + Count(vc)]
  ELSE [VR |-> vr, VC |-> vc, freed |-> 0]

\* ---------------------------------------------------------------- engine
Rows(mat) == mat.op.n

\* EPSCreate: a context with no operators and default settings.
EPSCreate ==
  [A |-> NULL, B |-> NULL, tol |-> PETSC_DEFAULT, max_it |-> PETSC_DEFAULT,
   nev |-> 1, which |-> "EPS_UNSET", target |-> 0, st |-> "STDEFAULT",
   solved |-> FALSE, nconv |-> 0]

\* Faulty variant: a registration without B keeps the B of the engine.
EPSSetOperators_KeepsSecond(e, pA, pB) ==
  [ierr |-> 0,
   eps |-> [e EXCEPT !.A = pA, !.B = IF pB = NULL THEN @ ELSE pB,
                     !.solved = FALSE, !.nconv = 0]]

\* EPSSetOperators: the engine retains A and B; the matrices of a generalized
\* problem must have the same dimensions; a new binding drops old results.
EPSSetOperators(e, pA, pB) ==
  IF pB # NULL /\ Rows(Deref(pB)) # Rows(Deref(pA))
  THEN [ierr |-> 1, eps |-> e]
  ELSE [ierr |-> 0,
        eps |-> [e EXCEPT !.A = pA, !.B = pB, !.solved = FALSE, !.nconv = 0]]

\* EPSGetOperators: fails when no operator has been set.
EPSGetOperators(e) ==
  IF e.A = NULL THEN [ierr |-> 1, A |-> NULL] ELSE [ierr |-> 0, A |-> e.A]

\* EPSSetTolerances: PETSC_DEFAULT selects the engine default; any other
\* value must be positive.
EPSSetTolerances(e, tol, maxits) ==
  IF (tol # PETSC_DEFAULT /\ tol <= 0) \/ (maxits # PETSC_DEFAULT /\ maxits <= 0)
  THEN [ierr |-> 1, eps |-> e]
  ELSE [ierr |-> 0, eps |-> [e EXCEPT !.tol = tol, !.max_it = maxits]]

\* EPSSetDimensions(eps, nev, PETSC_DECIDE, PETSC_DECIDE)
EPSSetDimensions(e, nev) ==
  IF nev < 1 THEN [ierr |-> 1, eps |-> e]
  ELSE [ierr |-> 0, eps |-> [e EXCEPT !.nev = nev]]

EPSSetWhichEigenpairs(e, w) == [ierr |-> 0, eps |-> [e EXCEPT !.which = w]]
EPSSetTarget(e, t) == [ierr |-> 0, eps |-> [e EXCEPT !.target = t]]
STSetType(e, t) == [ierr |-> 0, eps |-> [e EXCEPT !.st = t]]

\* EPSSetFromOptions: every option present in the options database (a
\* pointer per option, NULL when absent) replaces the engine setting.
EPSSetFromOptions(e, o) ==
  [e EXCEPT !.tol = IF o.tol = NULL THEN @ ELSE Deref(o.tol),
            !.max_it = IF o.max_it = NULL THEN @ ELSE Deref(o.max_it)]

\* EPSSolve: needs operators; converges nc eigenpairs.
EPSSolve(e, nc) ==
  IF e.A = NULL THEN [ierr |-> 1, eps |-> e]
  ELSE [ierr |-> 0, eps |-> [e EXCEPT !.solved = TRUE, !.nconv = nc]]

\* EPSGetEigenvalue / EPSGetEigenvector: index i must be below nconv of a
\* finished solve; a vector argument must have the layout of A.
EPSIndexError(e, i) == IF e.solved /\ i < e.nconv THEN 0 ELSE 1


\* SlepcInitialize: returns at once when the library is initialized already.
SlepcInitialize(l) ==
  IF l = "initialized" THEN [ierr |-> 0, lib |-> l]
  ELSE [ierr |-> 0, lib |-> "initialized"]

\* SlepcFinalize: an error unless SlepcInitialize has been called.
SlepcFinalize(l) ==
  IF l = "initialized" THEN [ierr |-> 0, lib |-> "finalized"]
  ELSE [ierr |-> 1, lib |-> l]

\* The error code of EPSCreate: creating an object needs the library.
EPSCreateError(l) == IF l = "initialized" THEN 0 ELSE 1

\* ----------------------------------------------------------------- views
\* new PetscParVector(pA, true, false): a view with the row layout of pA
\* and no storage of its own.
NewPetscParVector(pA) == [layout |-> Rows(Deref(pA)), array |-> NULL]
\* Faulty variant: the view is not bound to the caller's buffer.
PlaceArray_Ignored(v, b) == v

\* VR->PlaceArray(vr.GetData()): the view's array is the caller's buffer
PlaceArray(v, b) == [v EXCEPT !.array = Ptr(b)]
ResetArray(v) == [v EXCEPT !.array = NULL]

\* Faulty variant: the retrieval without the detach step.
BindRetrieveDetach_NoDetach(v, b, ierr) == Ptr(PlaceArray(Deref(v), b))

\* VR->PlaceArray(vr.GetData()); EPSGetEigenvector(...); PCHKERRQ;
\* VR->ResetArray(): the view after the call, or at the abort.
BindRetrieveDetach(v, b, ierr) ==
  IF ierr # 0 THEN Ptr(PlaceArray(Deref(v), b))
  ELSE Ptr(ResetArray(PlaceArray(Deref(v), b)))

\* What the engine writes through a bound view: component part of
\* eigenvector i.
EigVec(i, part) == Ptr([i |-> i, part |-> part])

\* EPSGetEigenvector stores its result in the array of the vector it is
\* given: the buffer the view is bound to.
EngineWrite(bf, v, val) ==
  IF v.array = NULL THEN bf ELSE [bf EXCEPT ![Deref(v.array)] = val]

\* -------------------------------------------------------------- Customize
\* Faulty variant: the latch is not set after the merge.
Customize_NoLatch(cl, customize) ==
  LET c1 == IF ~customize THEN TRUE ELSE cl
  IN [merge |-> ~c1, clcustom |-> c1]

\* Faulty variant: the latch is assigned the argument.
Customize_LatchFromArgument(cl, customize) ==
  LET c1 == IF ~customize THEN TRUE ELSE cl
  IN [merge |-> ~c1, clcustom |-> customize]

\* Faulty variant: the options are never merged.
Customize_NeverMerge(cl, customize) == [merge |-> FALSE, clcustom |-> TRUE]

\* Faulty variant: the argument is ignored.
Customize_IgnoreArgument(cl, customize) ==
  [merge |-> ~cl, clcustom |-> TRUE]

\* SlepcEigenSolver::Customize(bool customize): whether EPSSetFromOptions is
\* invoked, and the latch afterwards.
Customize(cl, customize) ==
  LET c1 == IF ~customize THEN TRUE ELSE cl
  IN [merge |-> ~c1, clcustom |-> TRUE]

\* ----------------------------------------------------------------- errors
\* Faulty variant: the error code of the engine is dropped.
PCHKERRQ_Ignored(ierr) == "ok"

\* #define PCHKERRQ(obj,err): a nonzero error code ends in MFEM_ABORT.
PCHKERRQ(ierr) == IF ierr # 0 THEN "aborted" ELSE "ok"

\* MFEM_VERIFY(!ierr, msg): the process state after the check.
MFEM_VERIFY(st, ierr) == IF ierr # 0 THEN "aborted" ELSE st

\* ierr = SlepcInitialize(argc,argv,rc_file,help); MFEM_VERIFY(!ierr,...)
MFEMInitializeSlepc(st, l) ==
  LET r == SlepcInitialize(l)
  IN [status |-> MFEM_VERIFY(st, r.ierr), lib |-> r.lib, ierr |-> r.ierr]

\* Faulty variant: the error code of SlepcFinalize is not verified.
MFEMFinalizeSlepc_NotVerified(st, l) ==
  LET r == SlepcFinalize(l)
  IN [status |-> st, lib |-> r.lib, ierr |-> r.ierr]

\* ierr = SlepcFinalize(); MFEM_VERIFY(!ierr,...)
MFEMFinalizeSlepc(st, l) ==
  LET r == SlepcFinalize(l)
  IN [status |-> MFEM_VERIFY(st, r.ierr), lib |-> r.lib, ierr |-> r.ierr]

\* ---------------------------------------------------------------- setters
\* The part of the solver a setter reads and writes:
\* [status, eps, tol (_tol), max_its (_max_its)].
Check(c, r) ==
  [c EXCEPT !.status = IF r.ierr # 0 THEN "aborted" ELSE @, !.eps = r.eps]

\* Faulty variant: the engine is given the cached value before the new
\* value is cached.
SetTol_PushBeforeCache(c, tol) ==
  [Check(c, EPSSetTolerances(c.eps, c.tol, c.max_its)) EXCEPT !.tol = tol]

\* _tol = tol; EPSSetTolerances(eps,_tol,_max_its); PCHKERRQ
SetTol(c, tol) ==
  LET c1 == [c EXCEPT !.tol = tol]
  IN Check(c1, EPSSetTolerances(c1.eps, c1.tol, c1.max_its))

\* _max_its = max_its; EPSSetTolerances(eps,_tol,_max_its); PCHKERRQ
SetMaxIter(c, max_its) ==
  LET c1 == [c EXCEPT !.max_its = max_its]
  IN Check(c1, EPSSetTolerances(c1.eps, c1.tol, c1.max_its))

\* EPSSetDimensions(eps,num_eigs,PETSC_DECIDE,PETSC_DECIDE); PCHKERRQ
SetNumModes(c, num_eigs) == Check(c, EPSSetDimensions(c.eps, num_eigs))

\* enum SlepcEigenSolver::Which, and a value outside it
Which ==
  {"LARGEST_MAGNITUDE", "SMALLEST_MAGNITUDE", "LARGEST_REAL", "SMALLEST_REAL",
   "LARGEST_IMAGINARY", "SMALLEST_IMAGINARY", "TARGET_MAGNITUDE", "TARGET_REAL"}
WhichOutOfRange == "WHICH_OUT_OF_RANGE"

\* Faulty variant: the argument is handed to the engine unchecked.
SetWhichEigenpairs_Unchecked(c, which) ==
  Check(c, EPSSetWhichEigenpairs(c.eps, "EPS_" \o which))

\* switch (which) { case ...: EPSSetWhichEigenpairs(eps,EPS_...); ...
\*                  default: MFEM_ABORT }
SetWhichEigenpairs(c, which) ==
  CASE which = "LARGEST_MAGNITUDE" ->
         Check(c, EPSSetWhichEigenpairs(c.eps, "EPS_LARGEST_MAGNITUDE"))
    [] which = "SMALLEST_MAGNITUDE" ->
         Check(c, EPSSetWhichEigenpairs(c.eps, "EPS_SMALLEST_MAGNITUDE"))
    [] which = "LARGEST_REAL" ->
         Check(c, EPSSetWhichEigenpairs(c.eps, "EPS_LARGEST_REAL"))
    [] which = "SMALLEST_REAL" ->
         Check(c, EPSSetWhichEigenpairs(c.eps, "EPS_SMALLEST_REAL"))
    [] which = "LARGEST_IMAGINARY" ->
         Check(c, EPSSetWhichEigenpairs(c.eps, "EPS_LARGEST_IMAGINARY"))
    [] which = "SMALLEST_IMAGINARY" ->
         Check(c, EPSSetWhichEigenpairs(c.eps, "EPS_SMALLEST_IMAGINARY"))
    [] which = "TARGET_MAGNITUDE" ->
         Check(c, EPSSetWhichEigenpairs(c.eps, "EPS_TARGET_MAGNITUDE"))
    [] which = "TARGET_REAL" ->
         Check(c, EPSSetWhichEigenpairs(c.eps, "EPS_TARGET_REAL"))
    [] OTHER -> [c EXCEPT !.status = "aborted"]

\* EPSSetTarget(eps,target); PCHKERRQ
SetTarget(c, target) == Check(c, EPSSetTarget(c.eps, target))

\* enum SlepcEigenSolver::SpectralTransformation, and a value outside it
SpectralTransformation == {"SHIFT", "SHIFT_INVERT"}
TransformationOutOfRange == "TRANSFORMATION_OUT_OF_RANGE"

\* EPSGetST(eps,&st); switch (transformation) { case SHIFT: STSetType(st,
\* STSHIFT); case SHIFT_INVERT: STSetType(st,STSINVERT); default: MFEM_ABORT }
SetSpectralTransformation(c, transformation) ==
  CASE transformation = "SHIFT" -> Check(c, STSetType(c.eps, "STSHIFT"))
    [] transformation = "SHIFT_INVERT" -> Check(c, STSetType(c.eps, "STSINVERT"))
    [] OTHER -> [c EXCEPT !.status = "aborted"]

\* ------------------------------------------------------------------ state
VARIABLES
  lib,           \* the SLEPc library: uninitialized, initialized, finalized
  status,        \* "ok", "aborted" (MFEM_ABORT) or "destroyed"
  eps,           \* the engine context
  epsLive,       \* engine contexts created and not destroyed
  clcustom, _tol, _max_its, _wrap, VR, VC, operatorset,
  opts,          \* the options database read by EPSSetFromOptions
  buf,           \* the caller's buffers
  liveWrappers,  \* synthesized PetscParMatrix objects not deleted
  liveViews,     \* PetscParVector objects not deleted
  merges,        \* EPSSetFromOptions invocations
  nmerge,        \* ... since construction or the last operator change
  nsolve,        \* Solve() calls returned since then
  explicitCustomize, \* Customize was called by the caller
  suppressed,    \* Customize(false) was called
  prevLayout,    \* layout of the view discarded last
  last           \* the last call and what it did

vars == <<status, lib, eps, epsLive, clcustom, _tol, _max_its, _wrap, VR, VC,
          operatorset, opts, buf, liveWrappers, liveViews, merges, nmerge,
          nsolve, explicitCustomize, suppressed, prevLayout, last>>

Bufs == {"buf1", "buf2"}
AllBufs == Bufs \cup {"buf3"}
\* what the caller stores in a buffer of its own
CallerData == Ptr([i |-> 0, part |-> "caller"])

LastOf(name) ==
  [op |-> name, merged |-> FALSE, customize |-> TRUE, allocs |-> 0,
   released |-> 0, ownedA |-> FALSE, ownedB |-> FALSE, argA |-> NULL,
   argB |-> NULL, freed |-> 0, ret |-> NULL, arg |-> NULL, twice |-> FALSE,
   bufR |-> NULL, bufC |-> NULL, seen |-> NULL, esolves |-> 0,
   hadB |-> FALSE, nviews |-> 0]

\* SlepcEigenSolver::SlepcEigenSolver(comm, prefix, wrap)
InitWith(wraps, optset) ==
  /\ status = "ok"
  /\ lib = "initialized"
  /\ clcustom = FALSE
  /\ _tol = PETSC_DEFAULT
  /\ _max_its = PETSC_DEFAULT
  /\ _wrap \in wraps
  /\ VR = NULL
  /\ VC = NULL
  /\ operatorset = FALSE
  /\ eps = EPSCreate
  /\ epsLive = 1
  /\ opts \in optset
  /\ buf = [b \in AllBufs |-> NULL]
  /\ liveWrappers = 0
  /\ liveViews = 0
  /\ merges = 0
  /\ nmerge = 0
  /\ nsolve = 0
  /\ explicitCustomize = FALSE
  /\ suppressed = FALSE
  /\ prevLayout = NULL
  /\ last = LastOf("SlepcEigenSolver")

Synth(p) == IF p # NULL /\ Deref(p).synth THEN 1 ELSE 0
Flag(b) == IF b THEN 1 ELSE 0
Discarded(vr, d) ==
  IF vr # NULL /\ d.VR = NULL THEN Ptr(Deref(vr).layout) ELSE prevLayout

\* SlepcEigenSolver::SetOperator(const Operator &op)
Call_SetOperator(op) ==
  /\ status = "ok"
  /\ LET a == AdaptOperator(op, _wrap)
         d == DiscardViews(operatorset, VR, VC)
         r == EPSSetOperators(eps, a.pA, NULL)
         rel == ReleaseIfOwned(a.delete_pA)
         l == [LastOf("SetOperator") EXCEPT !.argA = Ptr(op),
                 !.hadB = (eps.B # NULL),
                 !.allocs = Synth(a.pA), !.ownedA = a.delete_pA]
     IN IF a.pA = NULL
        THEN /\ status' = "aborted"
             /\ last' = l
             /\ UNCHANGED <<eps, VR, VC, liveViews, operatorset, liveWrappers,
                            prevLayout, nsolve, nmerge>>
        ELSE /\ VR' = d.VR
             /\ VC' = d.VC
             /\ liveViews' = liveViews - d.freed
             /\ prevLayout' = Discarded(VR, d)
             /\ eps' = r.eps
             /\ IF r.ierr # 0
                THEN /\ status' = "aborted"
                     /\ liveWrappers' = Min(liveWrappers + Synth(a.pA), MaxWrappers)
                     /\ last' = [l EXCEPT !.freed = d.freed]
                     /\ UNCHANGED <<operatorset, nsolve, nmerge>>
                ELSE /\ status' = "ok"
                     /\ operatorset' = MarkOperatorSet(operatorset)
                     /\ liveWrappers' =
                          Min(liveWrappers + Synth(a.pA) - rel, MaxWrappers)
                     /\ last' = [l EXCEPT !.freed = d.freed, !.released = rel]
                     /\ nsolve' = 0
                     /\ nmerge' = 0
  /\ UNCHANGED <<epsLive, clcustom, _tol, _max_its, _wrap, lib, opts, buf, merges,
                 explicitCustomize, suppressed>>

\* SlepcEigenSolver::SetOperators(const Operator &op, const Operator &opB)
Call_SetOperators(op, opB) ==
  /\ status = "ok"
  /\ LET a == AdaptOperator(op, _wrap)
         b == AdaptOperator(opB, _wrap)
         d == DiscardViews(operatorset, VR, VC)
         r == EPSSetOperators(eps, a.pA, b.pA)
         rel == ReleaseIfOwned(a.delete_pA) + ReleaseIfOwned(b.delete_pA)
         l == [LastOf("SetOperators") EXCEPT !.argA = Ptr(op),
                 !.argB = Ptr(opB), !.ownedA = a.delete_pA]
     IN IF a.pA = NULL
        THEN /\ status' = "aborted"
             /\ last' = [l EXCEPT !.allocs = Synth(a.pA)]
             /\ UNCHANGED <<eps, VR, VC, liveViews, operatorset, liveWrappers,
                            prevLayout, nsolve, nmerge>>
        ELSE IF b.pA = NULL
        THEN /\ status' = "aborted"
             /\ last' = [l EXCEPT !.allocs = Synth(a.pA) + Synth(b.pA),
                                  !.ownedB = b.delete_pA]
             /\ liveWrappers' = Min(liveWrappers + Synth(a.pA), MaxWrappers)
             /\ UNCHANGED <<eps, VR, VC, liveViews, operatorset, prevLayout,
                            nsolve, nmerge>>
        ELSE /\ VR' = d.VR
             /\ VC' = d.VC
             /\ liveViews' = liveViews - d.freed
             /\ prevLayout' = Discarded(VR, d)
             /\ operatorset' = MarkOperatorSet(operatorset)
             /\ eps' = r.eps
             /\ IF r.ierr # 0
                THEN /\ status' = "aborted"
                     /\ liveWrappers' =
                          Min(liveWrappers + Synth(a.pA) + Synth(b.pA), MaxWrappers)
                     /\ last' = [l EXCEPT !.freed = d.freed,
                            !.allocs = Synth(a.pA) + Synth(b.pA),
                            !.ownedB = b.delete_pA]
                     /\ UNCHANGED <<nsolve, nmerge>>
                ELSE /\ status' = "ok"
                     /\ liveWrappers' =
                          Min(liveWrappers + Synth(a.pA) + Synth(b.pA) - rel,
                              MaxWrappers)
                     /\ last' = [l EXCEPT !.freed = d.freed, !.released = rel,
                            !.allocs = Synth(a.pA) + Synth(b.pA),
                            !.ownedB = b.delete_pA]
                     /\ nsolve' = 0
                     /\ nmerge' = 0
  /\ UNCHANGED <<epsLive, clcustom, _tol, _max_its, _wrap, lib, opts, buf, merges,
                 explicitCustomize, suppressed>>

\* The setters: each is its function applied to the solver.
Cfg == [status |-> status, eps |-> eps, tol |-> _tol, max_its |-> _max_its]

Setter(c, name, arg) ==
  /\ status = "ok"
  /\ status' = c.status
  /\ eps' = c.eps
  /\ _tol' = c.tol
  /\ _max_its' = c.max_its
  /\ last' = [LastOf(name) EXCEPT !.arg = Ptr(arg),
                 !.twice = (last.op = name /\ last.arg = Ptr(arg))]
  /\ UNCHANGED <<epsLive, clcustom, _wrap, lib, VR, VC, operatorset, opts, buf,
                 liveWrappers, liveViews, merges, nmerge, nsolve,
                 explicitCustomize, suppressed, prevLayout>>

Call_SetTol(tol) == Setter(SetTol(Cfg, tol), "SetTol", tol)
Call_SetMaxIter(max_its) == Setter(SetMaxIter(Cfg, max_its), "SetMaxIter", max_its)
Call_SetNumModes(num_eigs) == Setter(SetNumModes(Cfg, num_eigs), "SetNumModes", num_eigs)
Call_SetWhichEigenpairs(which) ==
  Setter(SetWhichEigenpairs(Cfg, which), "SetWhichEigenpairs", which)
Call_SetTarget(target) == Setter(SetTarget(Cfg, target), "SetTarget", target)
Call_SetSpectralTransformation(transformation) ==
  Setter(SetSpectralTransformation(Cfg, transformation),
         "SetSpectralTransformation", transformation)

\* SlepcEigenSolver::Customize(bool customize), called by the caller
Call_Customize(customize) ==
  /\ status = "ok"
  /\ LET c == Customize(clcustom, customize)
     IN /\ clcustom' = c.clcustom
        /\ eps' = IF c.merge THEN EPSSetFromOptions(eps, opts) ELSE eps
        /\ merges' = Min(merges + Flag(c.merge), MaxMerges)
        /\ nmerge' = Min(nmerge + Flag(c.merge), MaxMerges)
        /\ last' = [LastOf("Customize") EXCEPT !.merged = c.merge,
                                               !.customize = customize]
  /\ explicitCustomize' = TRUE
  /\ suppressed' = (suppressed \/ ~customize)
  /\ UNCHANGED <<status, epsLive, _tol, _max_its, _wrap, lib, VR, VC, operatorset,
                 opts, buf, liveWrappers, liveViews, nsolve, prevLayout>>

\* What EPSSolve(eps) works on: the operators and settings of the engine.
ConfigOf(e) ==
  [A |-> e.A, B |-> e.B, tol |-> e.tol, max_it |-> e.max_it, nev |-> e.nev,
   which |-> e.which, target |-> e.target, st |-> e.st]

\* SlepcEigenSolver::Solve(): Customize(); EPSSolve(eps); PCHKERRQ
Call_Solve(nc) ==
  /\ status = "ok"
  /\ LET c == Customize(clcustom, TRUE)
         e1 == IF c.merge THEN EPSSetFromOptions(eps, opts) ELSE eps
         r == EPSSolve(e1, nc)
     IN /\ clcustom' = c.clcustom
        /\ eps' = r.eps
        /\ merges' = Min(merges + Flag(c.merge), MaxMerges)
        /\ nmerge' = Min(nmerge + Flag(c.merge), MaxMerges)
        /\ last' = [LastOf("Solve") EXCEPT !.merged = c.merge,
                      !.seen = Ptr(ConfigOf(e1)), !.esolves = 1,
                      !.twice = (last.op = "Solve")]
        /\ status' = PCHKERRQ(r.ierr)
        /\ nsolve' = IF r.ierr # 0 THEN nsolve ELSE Min(nsolve + 1, MaxSolves)
  /\ UNCHANGED <<epsLive, _tol, _max_its, _wrap, lib, VR, VC, operatorset, opts,
                 buf, liveWrappers, liveViews, explicitCustomize, suppressed,
                 prevLayout>>

\* SlepcEigenSolver::GetNumConverged(): EPSGetConverged(eps,&num_conv)
Call_GetNumConverged ==
  /\ status = "ok"
  /\ last' = [LastOf("GetNumConverged") EXCEPT !.ret = Ptr(eps.nconv)]
  /\ UNCHANGED <<status, eps, epsLive, clcustom, _tol, _max_its, _wrap, lib, VR,
                 VC, operatorset, opts, buf, liveWrappers, liveViews, merges,
                 nmerge, nsolve, explicitCustomize, suppressed, prevLayout>>

\* SlepcEigenSolver::GetEigenvalue(i, lr) / (i, lr, lc):
\* EPSGetEigenvalue(eps,i,&lr,...); PCHKERRQ
Call_GetEigenvalue(i) ==
  /\ status = "ok"
  /\ LET ierr == EPSIndexError(eps, i)
     IN /\ status' = PCHKERRQ(ierr)
        /\ last' = [LastOf("GetEigenvalue") EXCEPT !.arg = Ptr(i),
                      !.ret = IF ierr # 0 THEN NULL ELSE Ptr(i)]
  /\ UNCHANGED <<eps, epsLive, clcustom, _tol, _max_its, _wrap, lib, VR, VC,
                 operatorset, opts, buf, liveWrappers, liveViews, merges,
                 nmerge, nsolve, explicitCustomize, suppressed, prevLayout>>

\* EPSGetEigenvector(eps,i,Vr,Vi): the index error of EPSGetEigenvalue, or a
\* vector whose layout is not that of A.
EPSGetEigenvector(e, i, vr, vc) ==
  IF EPSIndexError(e, i) # 0 THEN 1
  ELSE IF Deref(vr).layout # Rows(Deref(e.A)) THEN 1
  ELSE IF vc # NULL /\ Deref(vc).layout # Rows(Deref(e.A)) THEN 1
  ELSE 0

\* Faulty variant: a view is allocated in every call.
LazyView_Always(v, pA) == [view |-> Ptr(NewPetscParVector(pA)), nviews |-> 1]

\* if (!VR) { ...; VR = new PetscParVector(pA, true, false); } : the view
\* used by the call and the number of views allocated for it.
LazyView(v, pA) ==
  IF v = NULL THEN [view |-> Ptr(NewPetscParVector(pA)), nviews |-> 1]
  ELSE [view |-> v, nviews |-> 0]

\* SlepcEigenSolver::GetEigenvector(unsigned int i, Vector & vr)
Call_GetEigenvector(i, vr) ==
  /\ status = "ok"
  /\ LET g == EPSGetOperators(eps)
     IN IF VR = NULL /\ g.ierr # 0
        THEN /\ status' = "aborted"
             /\ UNCHANGED <<VR, liveViews, buf>>
        ELSE LET lv == LazyView(VR, g.A)
                 v0 == lv.view
                 ierr == EPSGetEigenvector(eps, i, v0, NULL)
             IN /\ VR' = BindRetrieveDetach(v0, vr, ierr)
                /\ liveViews' = liveViews + lv.nviews
                /\ buf' = IF ierr # 0 THEN buf
                          ELSE EngineWrite(buf, PlaceArray(Deref(v0), vr),
                                           EigVec(i, "real"))
                /\ status' = PCHKERRQ(ierr)
  /\ last' = [LastOf("GetEigenvector") EXCEPT !.arg = Ptr(i),
                 !.bufR = Ptr(vr), !.nviews = liveViews' - liveViews]
  /\ UNCHANGED <<eps, epsLive, clcustom, _tol, _max_its, _wrap, lib, VC,
                 operatorset, opts, liveWrappers, merges, nmerge, nsolve,
                 explicitCustomize, suppressed, prevLayout>>

\* SlepcEigenSolver::GetEigenvector(unsigned int i, Vector & vr, Vector & vc)
Call_GetEigenvector2(i, vr, vc) ==
  /\ status = "ok"
  /\ LET g == EPSGetOperators(eps)
     IN IF (VR = NULL \/ VC = NULL) /\ g.ierr # 0
        THEN /\ status' = "aborted"
             /\ UNCHANGED <<VR, VC, liveViews, buf>>
        ELSE LET lv == LazyView(VR, g.A)
                 lw == LazyView(VC, g.A)
                 v0 == lv.view
                 w0 == lw.view
                 ierr == EPSGetEigenvector(eps, i, v0, w0)
             IN /\ VR' = BindRetrieveDetach(v0, vr, ierr)
                /\ VC' = BindRetrieveDetach(w0, vc, ierr)
                /\ liveViews' = liveViews + lv.nviews + lw.nviews
                /\ buf' = IF ierr # 0 THEN buf
                          ELSE EngineWrite(
                                 EngineWrite(buf, PlaceArray(Deref(v0), vr),
                                             EigVec(i, "real")),
                                 PlaceArray(Deref(w0), vc), EigVec(i, "imag"))
                /\ status' = PCHKERRQ(ierr)
  /\ last' = [LastOf("GetEigenvector2") EXCEPT !.arg = Ptr(i),
                 !.bufR = Ptr(vr), !.bufC = Ptr(vc),
                 !.nviews = liveViews' - liveViews]
  /\ UNCHANGED <<eps, epsLive, clcustom, _tol, _max_its, _wrap, lib, operatorset,
                 opts, liveWrappers, merges, nmerge, nsolve, explicitCustomize,
                 suppressed, prevLayout>>

\* ------------------------------------------------------ library lifecycle
Solver == <<eps, epsLive, clcustom, _tol, _max_its, _wrap, VR, VC,
            operatorset, opts, buf, liveWrappers, liveViews, merges, nmerge,
            nsolve, explicitCustomize, suppressed, prevLayout>>

\* void MFEMInitializeSlepc(...)
Call_MFEMInitializeSlepc ==
  /\ status # "aborted"
  /\ LET r == MFEMInitializeSlepc(status, lib)
     IN /\ status' = r.status
        /\ lib' = r.lib
        /\ last' = [LastOf("MFEMInitializeSlepc") EXCEPT !.arg = Ptr(lib),
                                                         !.ret = Ptr(r.ierr)]
  /\ UNCHANGED Solver

\* void MFEMFinalizeSlepc()
Call_MFEMFinalizeSlepc ==
  /\ status # "aborted"
  /\ LET r == MFEMFinalizeSlepc(status, lib)
     IN /\ status' = r.status
        /\ lib' = r.lib
        /\ last' = [LastOf("MFEMFinalizeSlepc") EXCEPT !.arg = Ptr(lib),
                                                       !.ret = Ptr(r.ierr)]
  /\ UNCHANGED Solver

\* SlepcEigenSolver::SlepcEigenSolver(comm, prefix, wrap) when no solver is
\* alive: the members are assigned, then EPSCreate is checked.
Construct(wrap) ==
  /\ status \in {"none", "destroyed"}
  /\ liveViews < MaxViews
  /\ clcustom' = FALSE
  /\ _tol' = PETSC_DEFAULT
  /\ _max_its' = PETSC_DEFAULT
  /\ _wrap' = wrap
  /\ VR' = NULL
  /\ VC' = NULL
  /\ operatorset' = FALSE
  /\ LET ierr == EPSCreateError(lib)
     IN /\ status' = PCHKERRQ(ierr)
        /\ eps' = EPSCreate
        /\ epsLive' = IF ierr # 0 THEN epsLive ELSE epsLive + 1
        /\ last' = [LastOf("SlepcEigenSolver") EXCEPT !.arg = Ptr(lib),
                                                      !.ret = Ptr(ierr)]
  /\ merges' = 0
  /\ nmerge' = 0
  /\ nsolve' = 0
  /\ explicitCustomize' = FALSE
  /\ suppressed' = FALSE
  /\ prevLayout' = NULL
  /\ UNCHANGED <<lib, opts, buf, liveWrappers, liveViews>>

\* A member function called on a solver whose library has been finalized:
\* undefined, the call may go on as usual or the process may die in it.
UseAfterFinalize ==
  /\ status = "ok"
  /\ lib # "initialized"
  /\ status' = "aborted"
  /\ last' = LastOf("UseAfterFinalize")
  /\ UNCHANGED lib
  /\ UNCHANGED Solver

\* The caller stores data of its own in one of its buffers.
CallerWrite(b) ==
  /\ status = "ok"
  /\ buf' = [buf EXCEPT ![b] = CallerData]
  /\ last' = [LastOf("CallerWrite") EXCEPT !.bufR = Ptr(b)]
  /\ UNCHANGED <<status, eps, epsLive, clcustom, _tol, _max_its, _wrap, lib, VR,
                 VC, operatorset, opts, liveWrappers, liveViews, merges,
                 nmerge, nsolve, explicitCustomize, suppressed, prevLayout>>

\* SlepcEigenSolver::~SlepcEigenSolver(): EPSDestroy(&eps)
Destroy ==
  /\ status = "ok"
  /\ status' = "destroyed"
  /\ epsLive' = epsLive - 1
  /\ last' = LastOf("~SlepcEigenSolver")
  /\ UNCHANGED <<eps, clcustom, _tol, _max_its, _wrap, lib, VR, VC, operatorset,
                 opts, buf, liveWrappers, liveViews, merges, nmerge, nsolve,
                 explicitCustomize, suppressed, prevLayout>>

\* ----------------------------------------------------------------- inputs
NoOptions == [tol |-> NULL, max_it |-> NULL]
OptionSets == [tol : {NULL, Ptr(3)}, max_it : {NULL, Ptr(3)}]
\* index 0 is in range after a solve that converged; MaxConv never is
Indices == {0, MaxConv}
TolValues == {PETSC_DEFAULT, 0, 1, 2}
IterValues == {PETSC_DEFAULT, 0, 1, 2}
ModeValues == 0..2
TargetValues == 0..1
WhichValues == Which \cup {WhichOutOfRange}
TransformationValues == SpectralTransformation \cup {TransformationOutOfRange}

\* -------------------------------------------------------- specifications
\* Spec: every public operation, each over a small argument set.
Init == InitWith({FALSE}, {NoOptions})

Next ==
  \/ Call_SetOperator(P1)
  \/ Call_SetOperators(P1, P1)
  \/ Call_SetTol(1)
  \/ Call_SetMaxIter(1)
  \/ Call_SetNumModes(2)
  \/ Call_SetWhichEigenpairs("SMALLEST_REAL")
  \/ Call_SetTarget(1)
  \/ Call_SetSpectralTransformation("SHIFT_INVERT")
  \/ \E customize \in BOOLEAN : Call_Customize(customize)
  \/ \E nc \in {0, MaxConv} : Call_Solve(nc)
  \/ Call_GetNumConverged
  \/ Call_GetEigenvalue(0)
  \/ Call_GetEigenvector(0, "buf1")
  \/ Call_GetEigenvector2(0, "buf1", "buf2")
  \/ Destroy

Spec == Init /\ [][Next]_vars

\* SpecOps: operator registration, solve, retrieval and destruction over
\* operators of every kind and two sizes.
InitOps == InitWith(BOOLEAN, {NoOptions})

NextOps ==
  \/ \E op \in Operators : Call_SetOperator(op)
  \/ \E op \in Operators, opB \in Operators : Call_SetOperators(op, opB)
  \/ \E nc \in 0..MaxConv : Call_Solve(nc)
  \/ \E i \in Indices : Call_GetEigenvalue(i)
  \/ \E i \in Indices, vr \in Bufs : Call_GetEigenvector(i, vr)
  \/ \E i \in Indices, vr \in Bufs, vc \in Bufs :
        vr # vc /\ Call_GetEigenvector2(i, vr, vc)
  \/ Destroy

SpecOps == InitOps /\ [][NextOps]_vars

\* SpecCfg: the configuration setters over all their argument values, with
\* and without options merged by Customize().
InitCfg == InitWith({FALSE}, OptionSets)

NextCfg ==
  \/ \E tol \in TolValues : Call_SetTol(tol)
  \/ \E max_its \in IterValues : Call_SetMaxIter(max_its)
  \/ \E num_eigs \in ModeValues : Call_SetNumModes(num_eigs)
  \/ \E which \in WhichValues : Call_SetWhichEigenpairs(which)
  \/ \E target \in TargetValues : Call_SetTarget(target)
  \/ \E transformation \in TransformationValues :
        Call_SetSpectralTransformation(transformation)
  \/ Call_Customize(TRUE)

SpecCfg == InitCfg /\ [][NextCfg]_vars

\* SpecBuf: retrieval into three caller buffers which the caller also
\* writes itself.
InitBuf == InitWith({FALSE}, {NoOptions})

NextBuf ==
  \/ Call_SetOperator(P1)
  \/ Call_SetOperators(P1, H1)
  \/ \E nc \in 0..MaxConv : Call_Solve(nc)
  \/ Call_SetTol(1)
  \/ \E i \in Indices, vr \in AllBufs : Call_GetEigenvector(i, vr)
  \/ \E i \in Indices, vr \in AllBufs, vc \in AllBufs :
        vr # vc /\ Call_GetEigenvector2(i, vr, vc)
  \/ \E b \in AllBufs : CallerWrite(b)

SpecBuf == InitBuf /\ [][NextBuf]_vars

\* SpecLib: the life of the library and of solvers constructed one after
\* the other, from a process that has not initialized the library.
InitLib ==
  /\ status = "none"
  /\ lib = "uninitialized"
  /\ clcustom = FALSE
  /\ _tol = PETSC_DEFAULT
  /\ _max_its = PETSC_DEFAULT
  /\ _wrap = FALSE
  /\ VR = NULL
  /\ VC = NULL
  /\ operatorset = FALSE
  /\ eps = EPSCreate
  /\ epsLive = 0
  /\ opts = NoOptions
  /\ buf = [b \in AllBufs |-> NULL]
  /\ liveWrappers = 0
  /\ liveViews = 0
  /\ merges = 0
  /\ nmerge = 0
  /\ nsolve = 0
  /\ explicitCustomize = FALSE
  /\ suppressed = FALSE
  /\ prevLayout = NULL
  /\ last = LastOf("main")

NextLib ==
  \/ Call_MFEMInitializeSlepc
  \/ Call_MFEMFinalizeSlepc
  \/ \E wrap \in BOOLEAN : Construct(wrap)
  \/ Call_SetOperator(H1)
  \/ Call_SetTol(1)
  \/ Call_Solve(MaxConv)
  \/ Call_GetEigenvector(0, "buf1")
  \/ Destroy
  \/ UseAfterFinalize

SpecLib == InitLib /\ [][NextLib]_vars

\* SpecSolve: solves between setter calls and operator changes, with every
\* content of the options database.
InitSolve == InitWith({FALSE}, OptionSets)

NextSolve ==
  \/ Call_SetOperator(P1)
  \/ Call_SetOperators(P1, H1)
  \/ Call_SetTol(1)
  \/ Call_SetMaxIter(2)
  \/ Call_SetWhichEigenpairs("TARGET_REAL")
  \/ Call_SetSpectralTransformation("SHIFT_INVERT")
  \/ \E customize \in BOOLEAN : Call_Customize(customize)
  \/ \E nc \in {0, MaxConv} : Call_Solve(nc)

SpecSolve == InitSolve /\ [][NextSolve]_vars

\* ----------------------------------------------------------------- claims
Registered == last.op \in {"SetOperator", "SetOperators"}
Views == {VR, VC}
Canonical(p) == Deref(p).kind = "PetscParMatrix"

\* C1: when SetOperator/SetOperators returns, every wrapper the adapter
\* synthesized during the call has been released exactly once, so no
\* synthesized wrapper is live.
C1_WrappersReleased ==
  (status = "ok" /\ Registered) =>
    (last.released = last.allocs /\ liveWrappers = 0)

\* C2 (as stated): without explicit Customize calls, the option merge has run
\* exactly once since the last operator change whenever one or two Solve()
\* calls have returned since then, also for a change that follows a solve.
C2_MergeAgainAfterOperatorChange ==
  (status = "ok" /\ ~explicitCustomize /\ nsolve >= 1) => nmerge = 1

\* C2 (amended): the option merge runs at most once in the solver's life;
\* without explicit Customize calls it has run exactly once after the first
\* Solve() and after every later one, and a Solve() that follows an operator
\* change does not run it again.
C2_MergeOncePerSolver ==
  /\ merges <= 1
  /\ (status = "ok" /\ ~explicitCustomize /\ nsolve >= 1) => merges = 1
  /\ (status = "ok" /\ last.op = "Solve" /\ last.merged) => merges = 1

C2_Witness ==
  /\ status = "ok" /\ ~explicitCustomize
  /\ last.op = "Solve" /\ ~last.merged
  /\ nsolve = 1 /\ nmerge = 0 /\ merges = 1

\* C3: an allocated view VR or VC has the row layout of the operator that is
\* registered as the primary operator of the engine.
C3_ViewsMatchPrimaryOperator ==
  status = "ok" =>
    \A v \in Views :
      v # NULL => (eps.A # NULL /\ Deref(v).layout = Rows(Deref(eps.A)))

C3_Witness ==
  /\ status = "ok" /\ last.op \in {"GetEigenvector", "GetEigenvector2"}
  /\ VR # NULL /\ prevLayout # NULL
  /\ Deref(prevLayout) # Deref(VR).layout

\* C4: when SetOperator/SetOperators returns, VR and VC are null and no view
\* object is left allocated.
C4_ViewsDiscardedOnRegistration ==
  (status = "ok" /\ Registered) =>
    (VR = NULL /\ VC = NULL /\ liveViews = 0)

C4_Witness ==
  status = "ok" /\ last.op = "SetOperators" /\ last.freed = 2

\* C5: between public operations no allocated view is bound to a caller
\* buffer.
C5_ViewsDetachedBetweenCalls ==
  status = "ok" => \A v \in Views : v # NULL => Deref(v).array = NULL

C5_Witness ==
  /\ status = "ok" /\ last.op = "GetEigenvector2"
  /\ VR # NULL /\ VC # NULL
  /\ buf["buf1"] # NULL /\ buf["buf2"] # NULL

\* C6: after the destructor the engine context has been released exactly
\* once and no view object is left allocated.
C6_DestructorReleasesViews ==
  status = "destroyed" => (epsLive = 0 /\ liveViews = 0)

\* C7: the customization latch is false at construction and no operation
\* takes it from true back to false.
C7_LatchStaysTrue == ~clcustom /\ [][clcustom => clcustom']_vars

C7_Witness ==
  status = "ok" /\ clcustom /\ last.op = "SetOperators" /\ nsolve = 0

\* C8: Customize(false) sets the latch without merging options, and once it
\* has been called no call merges them.
C8_SuppressedNeverMerges == suppressed => (clcustom /\ ~last.merged)

C8_Witness ==
  status = "ok" /\ suppressed /\ merges = 0 /\ last.op = "Solve"

\* C9: in every state a setter applied twice with one value leaves what one
\* application leaves, two applications that both return leave the engine
\* with the later value, and after a setter returned the engine holds its
\* argument.
EPSName(which) == "EPS_" \o which
STName(t) == IF t = "SHIFT" THEN "STSHIFT" ELSE "STSINVERT"
Ok2(c) == c.status = "ok"
C9_SettersIdempotentLastWriteWins ==
  status = "ok" =>
    /\ \A x \in TolValues :
         /\ SetTol(SetTol(Cfg, x), x) = SetTol(Cfg, x)
         /\ \A y \in TolValues : LET c == SetTol(SetTol(Cfg, x), y)
              IN Ok2(c) => (c.eps.tol = y /\ c.tol = y)
    /\ \A x \in IterValues :
         /\ SetMaxIter(SetMaxIter(Cfg, x), x) = SetMaxIter(Cfg, x)
         /\ \A y \in IterValues : LET c == SetMaxIter(SetMaxIter(Cfg, x), y)
              IN Ok2(c) => (c.eps.max_it = y /\ c.max_its = y)
    /\ \A x \in ModeValues :
         /\ SetNumModes(SetNumModes(Cfg, x), x) = SetNumModes(Cfg, x)
         /\ \A y \in ModeValues : LET c == SetNumModes(SetNumModes(Cfg, x), y)
              IN Ok2(c) => c.eps.nev = y
    /\ \A x \in WhichValues :
         /\ SetWhichEigenpairs(SetWhichEigenpairs(Cfg, x), x)
              = SetWhichEigenpairs(Cfg, x)
         /\ \A y \in WhichValues :
              LET c == SetWhichEigenpairs(SetWhichEigenpairs(Cfg, x), y)
              IN Ok2(c) => c.eps.which = EPSName(y)
    /\ \A x \in TargetValues :
         /\ SetTarget(SetTarget(Cfg, x), x) = SetTarget(Cfg, x)
         /\ \A y \in TargetValues : LET c == SetTarget(SetTarget(Cfg, x), y)
              IN Ok2(c) => c.eps.target = y
    /\ \A x \in TransformationValues :
         /\ SetSpectralTransformation(SetSpectralTransformation(Cfg, x), x)
              = SetSpectralTransformation(Cfg, x)
         /\ \A y \in TransformationValues :
              LET c == SetSpectralTransformation(
                         SetSpectralTransformation(Cfg, x), y)
              IN Ok2(c) => c.eps.st = STName(y)
    /\ last.op = "SetTol" =>
         (eps.tol = Deref(last.arg) /\ _tol = Deref(last.arg))
    /\ last.op = "SetMaxIter" =>
         (eps.max_it = Deref(last.arg) /\ _max_its = Deref(last.arg))
    /\ last.op = "SetNumModes" => eps.nev = Deref(last.arg)
    /\ last.op = "SetWhichEigenpairs" => eps.which = EPSName(Deref(last.arg))
    /\ last.op = "SetTarget" => eps.target = Deref(last.arg)
    /\ last.op = "SetSpectralTransformation" =>
         eps.st = STName(Deref(last.arg))

C9_Witness ==
  /\ status = "ok" /\ clcustom /\ opts.tol # NULL
  /\ last.op = "SetTol" /\ last.twice /\ Deref(last.arg) = 2

\* C10: an argument of SetOperator/SetOperators that is a PetscParMatrix is
\* registered with the engine as it is, not owned by the call, and the call
\* allocates a wrapper only for its other arguments.
NonCanonical(p) == IF p # NULL /\ ~Canonical(p) THEN 1 ELSE 0
C10_CanonicalOperatorBorrowed ==
  (status = "ok" /\ Registered) =>
    /\ last.allocs = NonCanonical(last.argA) + NonCanonical(last.argB)
    /\ Canonical(last.argA) =>
         /\ ~last.ownedA
         /\ ~Deref(eps.A).synth /\ Deref(eps.A).op = Deref(last.argA)
    /\ (last.op = "SetOperators" /\ Canonical(last.argB)) =>
         /\ ~last.ownedB
         /\ ~Deref(eps.B).synth /\ Deref(eps.B).op = Deref(last.argB)

C10_Witness ==
  /\ status = "ok" /\ last.op = "SetOperators"
  /\ Canonical(last.argB) /\ ~Canonical(last.argA)
  /\ liveWrappers = 1

\* C11: GetEigenvalue or GetEigenvector with an index i at or above
\* GetNumConverged() ends in the abort: the call returns no value and writes
\* nothing into a buffer of the caller.
Retrievals == {"GetEigenvalue", "GetEigenvector", "GetEigenvector2"}

C11_OutOfRangeAborts ==
  [][(last'.op \in Retrievals /\ status = "ok"
        /\ Deref(last'.arg) >= eps.nconv)
       => (status' = "aborted" /\ last'.ret = NULL /\ buf' = buf)]_vars

C11_Witness ==
  /\ status = "aborted" /\ last.op \in {"GetEigenvector", "GetEigenvector2"}
  /\ eps.solved /\ eps.nconv >= 1 /\ last.arg = Ptr(eps.nconv)

\* C12: SetWhichEigenpairs with a value outside the eight criteria and
\* SetSpectralTransformation with a value outside the two transformations
\* abort and leave the engine as it was; with a recognized value the call
\* returns and the engine holds the corresponding setting, and nothing else
\* of the engine has changed.
C12_EnumerationsClosed ==
  [][/\ last'.op = "SetWhichEigenpairs" =>
          IF Deref(last'.arg) \in Which
          THEN /\ status' = "ok"
               /\ eps' = [eps EXCEPT !.which = EPSName(Deref(last'.arg))]
          ELSE status' = "aborted" /\ eps' = eps
     /\ last'.op = "SetSpectralTransformation" =>
          IF Deref(last'.arg) \in SpectralTransformation
          THEN /\ status' = "ok"
               /\ eps' = [eps EXCEPT !.st = STName(Deref(last'.arg))]
          ELSE status' = "aborted" /\ eps' = eps]_vars

C12_Witness ==
  /\ status = "aborted" /\ last.op = "SetSpectralTransformation"
  /\ last.arg = Ptr(TransformationOutOfRange)
  /\ eps.st = "STSINVERT" /\ eps.which = "EPS_TARGET_REAL"

\* C13: GetEigenvector writes only into the buffers it is given.  A
\* returning call leaves the eigenvector in its buffer(s) and every other
\* buffer as it was, whatever the caller or an earlier call stored there;
\* GetEigenvector(i, b1) followed by GetEigenvector(i, b2) leaves the same
\* result in both; no other member function writes a buffer.
C13_WritesOnlySuppliedBuffers ==
  [][/\ last'.op = "GetEigenvector" =>
          /\ \A b \in AllBufs \ {Deref(last'.bufR)} : buf'[b] = buf[b]
          /\ status' = "ok" =>
                buf'[Deref(last'.bufR)] = EigVec(Deref(last'.arg), "real")
          /\ (last.op = "GetEigenvector" /\ status' = "ok"
                /\ last.arg = last'.arg /\ last.bufR # last'.bufR) =>
                buf'[Deref(last'.bufR)] = buf'[Deref(last.bufR)]
     /\ last'.op = "GetEigenvector2" =>
          /\ \A b \in AllBufs \ {Deref(last'.bufR), Deref(last'.bufC)} :
                buf'[b] = buf[b]
          /\ status' = "ok" =>
                /\ buf'[Deref(last'.bufR)] = EigVec(Deref(last'.arg), "real")
                /\ buf'[Deref(last'.bufC)] = EigVec(Deref(last'.arg), "imag")
     /\ last'.op \notin {"GetEigenvector", "GetEigenvector2", "CallerWrite"}
          => buf' = buf]_vars

C13_Witness ==
  /\ status = "ok" /\ last.op = "GetEigenvector"
  /\ last.bufR = Ptr("buf2") /\ buf["buf2"] = EigVec(0, "real")
  /\ buf["buf1"] = CallerData /\ buf["buf3"] = EigVec(0, "imag")

\* C14 (as stated): a nested MFEMInitializeSlepc, the construction of a
\* solver without an initialized library and MFEMFinalizeSlepc without a
\* matching initialize each end in the abort.
LifecycleCalls ==
  {"MFEMInitializeSlepc", "MFEMFinalizeSlepc", "SlepcEigenSolver"}

C15_SolveCustomizesThenSolvesOnce ==
  [][last'.op = "Solve" =>
       /\ last'.esolves = 1
       /\ clcustom'
       /\ last'.merged = ~clcustom
       /\ last'.seen = Ptr(ConfigOf(IF clcustom THEN eps
                                    ELSE EPSSetFromOptions(eps, opts)))
       /\ status' = "ok" =>
            (eps'.solved /\ ConfigOf(eps') = Deref(last'.seen))
       /\ last.op = "Solve" => (~last'.merged /\ last'.seen = last.seen)]_vars

C15_Witness ==
  /\ status = "ok" /\ last.op = "Solve" /\ last.twice
  /\ merges = 1 /\ ~explicitCustomize
  /\ opts.max_it # NULL /\ eps.max_it = Deref(opts.max_it)
  /\ _max_its = PETSC_DEFAULT /\ eps.B # NULL

\* C16: the operator binding of the engine changes only in a returning
\* SetOperator/SetOperators, and then as a whole: after SetOperators(A, B)
\* the engine holds A and B of that call, after SetOperator(A) it holds A
\* and no second operator; a call that aborts and every other member
\* function leave both operators as they were.
C16_BindingAtomic ==
  [][/\ (last'.op = "SetOperator" /\ status' = "ok") =>
          /\ eps'.A # NULL /\ Deref(eps'.A).op = Deref(last'.argA)
          /\ eps'.B = NULL
     /\ (last'.op = "SetOperators" /\ status' = "ok") =>
          /\ eps'.A # NULL /\ Deref(eps'.A).op = Deref(last'.argA)
          /\ eps'.B # NULL /\ Deref(eps'.B).op = Deref(last'.argB)
     /\ (last'.op \notin {"SetOperator", "SetOperators"}
          \/ status' # "ok") =>
          (eps'.A = eps.A /\ eps'.B = eps.B)]_vars

C16_Witness ==
  /\ status = "ok" /\ last.op = "SetOperator" /\ last.hadB
  /\ eps.B = NULL /\ Deref(eps.A).op = G2

\* C17: a returning SetTol changes the tolerance of the engine and nothing
\* else of it, in particular not its maximum iteration count; a returning
\* SetMaxIter changes the maximum iteration count of the engine and nothing
\* else of it, in particular not its tolerance; also after Customize() has
\* merged the options database into the engine.
C17_FieldsIndependent ==
  [][/\ (last'.op = "SetTol" /\ status' = "ok") =>
          eps' = [eps EXCEPT !.tol = Deref(last'.arg)]
     /\ (last'.op = "SetMaxIter" /\ status' = "ok") =>
          eps' = [eps EXCEPT !.max_it = Deref(last'.arg)]]_vars

\* C18: the views are allocated lazily and at most once per binding.
\* GetEigenvector(i, vr) leaves VC as it is, keeps a VR that exists and
\* allocates one view, VR, when there is none; GetEigenvector(i, vr, vc)
\* keeps the views that exist and allocates exactly the missing ones; no
\* other member function allocates a view.
SameView(v, w) == w # NULL /\ Deref(w).layout = Deref(v).layout

C18_ViewsAllocatedLazilyOnce ==
  [][/\ last'.op = "GetEigenvector" =>
          /\ VC' = VC
          /\ VR # NULL => (liveViews' = liveViews /\ SameView(VR, VR'))
          /\ VR = NULL => liveViews' = liveViews + Count(VR')
          /\ status' = "ok" => VR' # NULL
     /\ last'.op = "GetEigenvector2" =>
          /\ VR # NULL => SameView(VR, VR')
          /\ VC # NULL => SameView(VC, VC')
          /\ liveViews' = liveViews + (Count(VR') - Count(VR))
                                     + (Count(VC') - Count(VC))
          /\ status' = "ok" => (VR' # NULL /\ VC' # NULL)
     /\ last'.op \notin {"GetEigenvector", "GetEigenvector2"} =>
          liveViews' <= liveViews]_vars

C18_Witness ==
  /\ status = "ok" /\ last.op = "GetEigenvector2" /\ last.nviews = 1
  /\ VR # NULL /\ VC # NULL /\ liveViews = 2

\* C19: whenever a call has returned, an allocated view implies that
\* operatorset is true, so a returning SetOperator/SetOperators has deleted
\* every view that existed when it was called, also the first one.
C19_ViewImpliesOperatorSet ==
  [][/\ status' \in {"ok", "destroyed"} =>
          ((VR' # NULL \/ VC' # NULL) => operatorset')
     /\ (Registered' /\ status' = "ok") =>
          last'.freed = Count(VR) + Count(VC)]_vars

C19_Witness ==
  /\ status = "ok" /\ last.op = "SetOperator" /\ last.freed = 1
  /\ operatorset /\ VR = NULL /\ VC = NULL /\ ~eps.solved

====
